---------------------------- MODULE Spec2Model ----------------------------
(***************************************************************************)
(* A model of redrec.py: the operation registry (read_operations,          *)
(* save_operation) shared by concurrent invocations of the tool, the       *)
(* interactive selector (select_operation, getch, clear_previous_lines),   *)
(* and an invocation from main to the recorder (main, run_with_asciinema). *)
(*                                                                         *)
(* Text is a sequence of one-character strings.  An operation name is such *)
(* a sequence; the registry file is the sequence of characters on disk.    *)
(***************************************************************************)
EXTENDS Integers, Sequences, FiniteSets, TLC

(***************************************************************************)
(* Characters and operation names                                          *)
(***************************************************************************)
LF == "\n"
CR == "\r"
FF == "\f"

\* The line boundaries of str.splitlines that the alphabet of the model holds.
LineBreaks == {LF, CR, FF}

NameA == <<"a">>
NameB == <<"b">>
NameEmpty == <<>>
NameTwoLines == <<"a", LF, "b">>
NameCR == <<"b", CR>>

\* The operation names an invocation may be given (sys.argv[2]): plain ones,
\* the empty one, one holding a line feed and one ending in a carriage return.
Names == {NameA, NameB, NameEmpty, NameTwoLines, NameCR}

\* The invocations of the tool that share the registry file.
Procs == {"p1", "p2"}
P1 == "p1"

(***************************************************************************)
(* Bounds                                                                  *)
(***************************************************************************)
\* A new Append call starts only while the file is shorter than this.
MaxFileLen == 3
\* The sequential specification makes at most this many Append calls.
MaxCalls == 3
\* The selector decodes at most this many arrow keys.
MaxKeys == 3
\* The terminal shows at most this many rows when the selector starts.
MaxPrior == 2
\* At most this many invocations of the tool follow one another.
MaxRuns == 2

(***************************************************************************)
(* Pure functions                                                          *)
(***************************************************************************)
Range(s) == {s[i] : i \in 1..Len(s)}

IsPrefix(s, t) == Len(s) <= Len(t) /\ SubSeq(t, 1, Len(s)) = s

RECURSIVE Count(_, _)
Count(x, s) == IF s = <<>> THEN 0
               ELSE (IF Head(s) = x THEN 1 ELSE 0) + Count(x, Tail(s))

\* The index of the first x in s, 0 when there is none.
RECURSIVE IndexFrom(_, _, _)
IndexFrom(x, s, i) == IF i > Len(s) THEN 0
                      ELSE IF s[i] = x THEN i ELSE IndexFrom(x, s, i + 1)
IndexOf(x, s) == IndexFrom(x, s, 1)

\* A text file opened with open(path, "r") is read with universal newlines:
\* "\r\n" and a lone "\r" both arrive as "\n".
RECURSIVE TranslateNewlines(_)
TranslateNewlines(t) ==
    IF t = <<>> THEN <<>>
    ELSE IF Head(t) = CR
         THEN IF Len(t) >= 2 /\ t[2] = LF
              THEN <<LF>> \o TranslateNewlines(Tail(Tail(t)))
              ELSE <<LF>> \o TranslateNewlines(Tail(t))
         ELSE <<Head(t)>> \o TranslateNewlines(Tail(t))

\* str.splitlines from position i on, cur being the line collected so far:
\* every line boundary ends a line ("\r\n" counts once); what follows the
\* last boundary is a line only when it is not empty.
RECURSIVE SplitFrom(_, _, _)
SplitFrom(t, i, cur) ==
    IF i > Len(t) THEN (IF cur = <<>> THEN <<>> ELSE <<cur>>)
    ELSE IF t[i] \in LineBreaks
         THEN <<cur>> \o SplitFrom(t,
                  IF t[i] = CR /\ i < Len(t) /\ t[i + 1] = LF THEN i + 2 ELSE i + 1,
                  <<>>)
         ELSE SplitFrom(t, i + 1, Append(cur, t[i]))

splitlines(t) == SplitFrom(t, 1, <<>>)

\* f.read().splitlines() on the text file
ReadLines(t) == splitlines(TranslateNewlines(t))

\* A record written without its line terminator.
RecordNoNewline(x) == x

\* f"{operation_name}\n"
Record(x) == x \o <<LF>>

(***************************************************************************)
(* State                                                                   *)
(***************************************************************************)
VARIABLES
    exists,          \* os.path.exists(operations_file)
    content,         \* the characters of the registry file on disk
    lock,            \* lock[p]: the flock p holds on its open file: UN, SH, EX
    pc,              \* pc[p]: the line p is at
    call,            \* call[p]: the operation p runs, or ran last
    operation_name,  \* operation_name[p]: the argument of save_operation
    operations,      \* operations[p]: the list read_operations produced for p
    wbuf,            \* wbuf[p]: text written to p's file object, not yet flushed
    audit,           \* whether the calls made are recorded in hist and snaps
    hist,            \* the names save_operation was called with, in call order
    snaps,           \* the file content at the start of each of those calls
    content0,        \* the file content before any invocation ran
    last_read,       \* the list the latest read_operations to finish reading produced
    candidates,      \* select_operation's argument operations
    selected_index,  \* select_operation's selected_index
    sel,             \* the line select_operation or getch is at
    key,             \* the characters read for the key being decoded
    ch,              \* getch's ch
    raised,          \* whether sys.stdin.read raised in the current getch
    termios,         \* the settings of the terminal
    old_settings,    \* getch's old_settings
    tty0,            \* the settings of the terminal before the selector ran
    screen,          \* the rows of the terminal above the cursor, top first
    status,          \* Navigating, Confirmed or Cancelled
    result,          \* <<name>> once select_operation returned name
    downs,           \* how many Down keys were decoded
    ups,             \* how many Up keys were decoded
    mpc,             \* the line main or run_with_asciinema is at
    argv,            \* sys.argv of the invocation: what was asked for, and the name given
    asciinema,       \* whether shutil.which finds the recorder
    run_name,        \* operation_name of main and run_with_asciinema: <<>> for None
    used,            \* the names recordings were started under, oldest first
    rec,             \* the recorder: not started, running, or how it ended
    exit_status,     \* the exit status of the process once mpc is "exited"
    runs,            \* how many invocations were started
    pre              \* the registry file when the invocation started

regVars == <<exists, content, lock, pc, call, operation_name, operations, wbuf>>
audVars == <<audit, hist, snaps, content0>>
obsVars == <<last_read>>
selVars == <<candidates, selected_index, sel, key, ch, raised, termios,
             old_settings, tty0, screen, status, result, downs, ups>>
mainVars == <<mpc, argv, asciinema, run_name, used, rec, exit_status, runs, pre>>
vars == <<regVars, audVars, obsVars, selVars, mainVars>>

\* Registry contents the program produces: none, one name, a name entered
\* twice by two racing invocations, two names.
InitTexts == {<<>>, Record(NameA), Record(NameA) \o Record(NameA),
              Record(NameB) \o Record(NameA)}

RegInit ==
    /\ content \in InitTexts
    /\ exists \in (IF content = <<>> THEN BOOLEAN ELSE {TRUE})
    /\ lock = [p \in Procs |-> "UN"]
    /\ pc = [p \in Procs |-> "idle"]
    /\ call = [p \in Procs |-> "none"]
    /\ operation_name = [p \in Procs |-> <<>>]
    /\ operations = [p \in Procs |-> <<>>]
    /\ wbuf = [p \in Procs |-> <<>>]
    /\ hist = <<>>
    /\ snaps = <<>>
    /\ content0 = content
    /\ last_read = <<>>

(***************************************************************************)
(* read_operations                                                         *)
(***************************************************************************)
\* Where read_operations returns to: its caller save_operation (line 31), or
\* the end of a ReadAll call.
ReadReturn(p) == IF call[p] = "append" THEN "s_check" ELSE "idle"

\* The file created when it is missing.
ReadExistsCreates(p) ==
    /\ pc[p] = "r_exists"
    /\ exists' = TRUE
    /\ IF exists
       THEN /\ pc' = [pc EXCEPT ![p] = "r_lock"]
            /\ UNCHANGED <<operations, last_read>>
       ELSE /\ operations' = [operations EXCEPT ![p] = <<>>]
            /\ last_read' = <<>>
            /\ pc' = [pc EXCEPT ![p] = ReadReturn(p)]
    /\ UNCHANGED <<content, lock, call, operation_name, wbuf, audVars, selVars,
                   mainVars>>

\* line 21-22: the file is opened only when it exists; otherwise line 27
\* returns the empty list.
ReadExists(p) ==
    /\ pc[p] = "r_exists"
    /\ IF exists
       THEN /\ pc' = [pc EXCEPT ![p] = "r_lock"]
            /\ UNCHANGED <<operations, last_read>>
       ELSE /\ operations' = [operations EXCEPT ![p] = <<>>]
            /\ last_read' = <<>>
            /\ pc' = [pc EXCEPT ![p] = ReadReturn(p)]
    /\ UNCHANGED <<exists, content, lock, call, operation_name, wbuf, audVars, selVars,
                   mainVars>>

\* A shared lock is granted when no other open file holds the exclusive one.
CanLockShared(p) == \A q \in Procs \ {p} : lock[q] # "EX"

\* line 23: fcntl.flock(f, fcntl.LOCK_SH) blocks until the lock is granted.
ReadLock(p) ==
    /\ pc[p] = "r_lock"
    /\ CanLockShared(p)
    /\ lock' = [lock EXCEPT ![p] = "SH"]
    /\ pc' = [pc EXCEPT ![p] = "r_read"]
    /\ UNCHANGED <<exists, content, call, operation_name, operations, wbuf, audVars, obsVars, selVars,
                   mainVars>>

\* line 24: operations = f.read().splitlines()
ReadRead(p) ==
    /\ pc[p] = "r_read"
    /\ operations' = [operations EXCEPT ![p] = ReadLines(content)]
    /\ last_read' = operations'[p]
    /\ pc' = [pc EXCEPT ![p] = "r_unlock"]
    /\ UNCHANGED <<exists, content, lock, call, operation_name, wbuf, audVars, selVars,
                   mainVars>>

\* The list returned with the shared lock still held.
ReadKeepsLock(p) ==
    /\ pc[p] = "r_unlock"
    /\ pc' = [pc EXCEPT ![p] = ReadReturn(p)]
    /\ UNCHANGED <<exists, content, lock, call, operation_name, operations, wbuf, audVars, obsVars, selVars,
                   mainVars>>

\* line 25-26: the lock is released, the list returned and the file closed.
ReadUnlock(p) ==
    /\ pc[p] = "r_unlock"
    /\ lock' = [lock EXCEPT ![p] = "UN"]
    /\ pc' = [pc EXCEPT ![p] = ReadReturn(p)]
    /\ UNCHANGED <<exists, content, call, operation_name, operations, wbuf, audVars, obsVars, selVars,
                   mainVars>>

(***************************************************************************)
(* save_operation                                                          *)
(***************************************************************************)
\* The membership test left out, and the test inverted.
NotInAlways(x, ops) == TRUE
NotInInverted(x, ops) == x \in Range(ops)

\* line 33: operation_name not in operations
NotIn(x, ops) == x \notin Range(ops)

\* line 33.  The list is not used after the test, so the model drops it here.
SaveCheck(p) ==
    /\ pc[p] = "s_check"
    /\ pc' = [pc EXCEPT ![p] = IF NotIn(operation_name[p], operations[p])
                               THEN "s_open" ELSE "idle"]
    /\ operations' = [operations EXCEPT ![p] = <<>>]
    /\ UNCHANGED <<exists, content, lock, call, operation_name, wbuf, audVars, obsVars, selVars,
                   mainVars>>

\* line 34: open(operations_file, "a") creates the file when it is missing.
SaveOpen(p) ==
    /\ pc[p] = "s_open"
    /\ exists' = TRUE
    /\ pc' = [pc EXCEPT ![p] = "s_lock"]
    /\ UNCHANGED <<content, lock, call, operation_name, operations, wbuf, audVars, obsVars, selVars,
                   mainVars>>

\* The exclusive lock is granted when no other open file holds any lock.
CanLockExclusive(p) == \A q \in Procs \ {p} : lock[q] = "UN"

\* line 35: fcntl.flock(f, fcntl.LOCK_EX) blocks until the lock is granted.
SaveLock(p) ==
    /\ pc[p] = "s_lock"
    /\ CanLockExclusive(p)
    /\ lock' = [lock EXCEPT ![p] = "EX"]
    /\ pc' = [pc EXCEPT ![p] = "s_write"]
    /\ UNCHANGED <<exists, content, call, operation_name, operations, wbuf, audVars, obsVars, selVars,
                   mainVars>>

\* line 36: f.write(f"{operation_name}\n") puts the record in the buffer of
\* the file object; nothing reaches the file yet.
SaveWrite(p) ==
    /\ pc[p] = "s_write"
    /\ wbuf' = [wbuf EXCEPT ![p] = wbuf[p] \o Record(operation_name[p])]
    /\ pc' = [pc EXCEPT ![p] = "s_unlock"]
    /\ UNCHANGED <<exists, content, lock, call, operation_name, operations, audVars, obsVars, selVars,
                   mainVars>>

\* line 37: fcntl.flock(f, fcntl.LOCK_UN)
SaveUnlock(p) ==
    /\ pc[p] = "s_unlock"
    /\ lock' = [lock EXCEPT ![p] = "UN"]
    /\ pc' = [pc EXCEPT ![p] = "s_close"]
    /\ UNCHANGED <<exists, content, call, operation_name, operations, wbuf, audVars, obsVars, selVars,
                   mainVars>>

\* The file opened in mode "w" instead: the write replaces the content.
TruncatingWrite(text, data) == data

\* What a write on a file opened in mode "a" leaves on disk: O_APPEND puts
\* the data after the last byte the file has at that moment.
AppendWrite(text, data) == text \o data

\* line 34, leaving the with block: the file object is closed, which flushes
\* the buffer to the file.
SaveClose(p) ==
    /\ pc[p] = "s_close"
    /\ content' = AppendWrite(content, wbuf[p])
    /\ wbuf' = [wbuf EXCEPT ![p] = <<>>]
    /\ pc' = [pc EXCEPT ![p] = "idle"]
    /\ UNCHANGED <<exists, lock, call, operation_name, operations, audVars, obsVars, selVars,
                   mainVars>>

(***************************************************************************)
(* Calls                                                                   *)
(***************************************************************************)
\* Append(x): save_operation(x), line 29-31
CallAppend(p, x) ==
    /\ pc[p] = "idle"
    /\ call' = [call EXCEPT ![p] = "append"]
    /\ operation_name' = [operation_name EXCEPT ![p] = x]
    /\ operations' = [operations EXCEPT ![p] = <<>>]
    /\ pc' = [pc EXCEPT ![p] = "r_exists"]
    /\ hist' = IF audit THEN Append(hist, x) ELSE hist
    /\ snaps' = IF audit THEN Append(snaps, content) ELSE snaps
    /\ UNCHANGED <<exists, content, lock, wbuf, audit, content0, obsVars, selVars>>

\* ReadAll(): read_operations(), line 19-20
CallRead(p) ==
    /\ pc[p] = "idle"
    /\ call' = [call EXCEPT ![p] = "read"]
    /\ operations' = [operations EXCEPT ![p] = <<>>]
    /\ pc' = [pc EXCEPT ![p] = "r_exists"]
    /\ UNCHANGED <<exists, content, lock, operation_name, wbuf, audVars, obsVars, selVars>>

(***************************************************************************)
(* The selector: select_operation, getch, clear_previous_lines             *)
(***************************************************************************)
ESC == "ESC"     \* the character 0x1B
ETX == "ETX"     \* the character 0x03, Ctrl-C
KeyUpSeq == <<ESC, "[", "A">>
KeyDownSeq == <<ESC, "[", "B">>

\* What sys.stdin.read(1) may deliver: the characters the selector tests for
\* and one it does not ("x").
Bytes == {ESC, "[", "A", "B", LF, CR, ETX, "x"}

\* The terminal settings tty.setraw leaves, and the ones a terminal has before.
RawMode == "raw"
TtyModes == {"cooked", "noecho"}

\* The rows on the terminal: what was there before the selector, the heading
\* (line 107) and the candidates (line 113, 115).
PriorRow == [kind |-> "prior", mark |-> FALSE, text |-> <<>>]
HeadingRow == [kind |-> "heading", mark |-> FALSE, text |-> <<>>]
ItemRow(marked, operation) == [kind |-> "item", mark |-> marked, text |-> operation]

\* The registries the selector is given the entries of.
SelTexts == InitTexts \cup {Record(NameA) \o Record(NameB) \o Record(NameEmpty)}

\* clear_previous_lines(num_lines): each "\033[F" moves the cursor up one row
\* (it stays on the top row when there is none above) and "\033[K" clears that
\* row, so the cursor ends num_lines rows higher with nothing left below it.
ClearPreviousLines(rows, num_lines) ==
    IF num_lines >= Len(rows) THEN <<>>
    ELSE SubSeq(rows, 1, Len(rows) - num_lines)

\* line 111-115: one row per candidate, the selected one marked with ">"
DrawMenu(rows, ops, index) ==
    rows \o [i \in 1..Len(ops) |-> ItemRow(i - 1 = index, ops[i])]

\* The index moved without the modulo.
UpIndexNoWrap(index, n) == index - 1

\* line 122 and 124 (Python's % takes the sign of the divisor, as TLA+'s does
\* for a positive one)
UpIndex(index, n) == (index - 1) % n
DownIndex(index, n) == (index + 1) % n

\* The first candidate returned whatever the index.
ChosenFirst(ops, index) == ops[1]

\* line 127: operations[selected_index]
Chosen(ops, index) == ops[index + 1]

\* line 92: tty.setraw(fd)
SetRaw(settings) == RawMode

\* The settings left as they are.
NotRestored(old, current) == current

\* line 95: termios.tcsetattr(fd, termios.TCSADRAIN, old_settings)
Restored(old, current) == old

\* Only one more character read after "\x1b".
MoreBytesOnce(k) == k # <<>> /\ k[1] = ESC /\ Len(k) < 2

\* line 119-120: after "\x1b" two more characters are read
MoreBytes(k) == k # <<>> /\ k[1] = ESC /\ Len(k) < 3

SelOff ==
    /\ candidates = <<>>
    /\ selected_index = 0
    /\ sel = "off"
    /\ key = <<>>
    /\ ch = ""
    /\ raised = FALSE
    /\ termios = "cooked"
    /\ old_settings = "cooked"
    /\ tty0 = "cooked"
    /\ screen = <<>>
    /\ status = "None"
    /\ result = <<>>
    /\ downs = 0
    /\ ups = 0

\* No invocation of main has started.
MainOff ==
    /\ mpc = "off"
    /\ argv = [mode |-> "help", name |-> <<>>]
    /\ asciinema = TRUE
    /\ run_name = <<>>
    /\ used = <<>>
    /\ rec = "no"
    /\ exit_status = 0
    /\ runs = 0
    /\ pre = [exists |-> exists, content |-> content]

\* line 104-107
SelectStart ==
    /\ sel = "start"
    /\ selected_index' = 0
    /\ status' = "Navigating"
    /\ screen' = Append(screen, HeadingRow)
    /\ sel' = "render"
    /\ UNCHANGED <<candidates, key, ch, raised, termios, old_settings, tty0,
                   result, downs, ups, regVars, audVars, obsVars, mainVars>>

\* line 109-117: erase, redraw, then key = getch()
Render ==
    /\ sel = "render"
    /\ screen' = DrawMenu(ClearPreviousLines(screen, Len(candidates)),
                          candidates, selected_index)
    /\ key' = <<>>
    /\ sel' = "g_save"
    /\ UNCHANGED <<candidates, selected_index, ch, raised, termios, old_settings,
                   tty0, status, result, downs, ups, regVars, audVars, obsVars,
                   mainVars>>

\* line 89-90: old_settings = termios.tcgetattr(fd)
GetchSave ==
    /\ sel = "g_save"
    /\ old_settings' = termios
    /\ sel' = "g_raw"
    /\ UNCHANGED <<candidates, selected_index, key, ch, raised, termios, tty0,
                   screen, status, result, downs, ups, regVars, audVars, obsVars,
                   mainVars>>

\* line 92
GetchRaw ==
    /\ sel = "g_raw"
    /\ termios' = SetRaw(termios)
    /\ sel' = "g_read"
    /\ UNCHANGED <<candidates, selected_index, key, ch, raised, old_settings,
                   tty0, screen, status, result, downs, ups, regVars, audVars, obsVars,
                   mainVars>>

\* line 93: ch = sys.stdin.read(1).  Standard input is a terminal (line 90
\* succeeded) in raw mode, so the read blocks until a character arrives and
\* returns it.  A new escape sequence starts only while fewer than MaxKeys
\* arrow keys were decoded.
GetchRead ==
    /\ sel = "g_read"
    /\ \E b \in Bytes :
          /\ (b = ESC /\ key = <<>>) => downs + ups < MaxKeys
          /\ ch' = b
    /\ raised' = FALSE
    /\ sel' = "g_restore"
    /\ UNCHANGED <<candidates, selected_index, key, termios, old_settings, tty0,
                   screen, status, result, downs, ups, regVars, audVars, obsVars,
                   mainVars>>

\* line 93 raising (an I/O error, an undecodable input)
GetchRaise ==
    /\ sel = "g_read"
    /\ raised' = TRUE
    /\ sel' = "g_restore"
    /\ UNCHANGED <<candidates, selected_index, key, ch, termios, old_settings,
                   tty0, screen, status, result, downs, ups, regVars, audVars, obsVars,
                   mainVars>>

\* line 94-96: the finally clause restores the settings; then either the
\* exception goes on up through select_operation, or ch is returned and
\* joins the key (line 117, 120).
GetchRestore ==
    /\ sel = "g_restore"
    /\ termios' = Restored(old_settings, termios)
    /\ IF raised
       THEN sel' = "raised" /\ UNCHANGED key
       ELSE sel' = "dispatch" /\ key' = Append(key, ch)
    /\ UNCHANGED <<candidates, selected_index, ch, raised, old_settings, tty0,
                   screen, status, result, downs, ups, regVars, audVars, obsVars,
                   mainVars>>

\* line 119-120: key += getch() + getch()
KeyEscape ==
    /\ sel = "dispatch"
    /\ MoreBytes(key)
    /\ sel' = "g_save"
    /\ UNCHANGED <<candidates, selected_index, key, ch, raised, termios,
                   old_settings, tty0, screen, status, result, downs, ups,
                   regVars, audVars, obsVars, mainVars>>

\* line 121-122
KeyUp ==
    /\ sel = "dispatch"
    /\ ~MoreBytes(key)
    /\ key = KeyUpSeq
    /\ selected_index' = UpIndex(selected_index, Len(candidates))
    /\ ups' = ups + 1
    /\ sel' = "render"
    /\ UNCHANGED <<candidates, key, ch, raised, termios, old_settings, tty0,
                   screen, status, result, downs, regVars, audVars, obsVars, mainVars>>

\* line 123-124
KeyDown ==
    /\ sel = "dispatch"
    /\ ~MoreBytes(key)
    /\ key = KeyDownSeq
    /\ selected_index' = DownIndex(selected_index, Len(candidates))
    /\ downs' = downs + 1
    /\ sel' = "render"
    /\ UNCHANGED <<candidates, key, ch, raised, termios, old_settings, tty0,
                   screen, status, result, ups, regVars, audVars, obsVars, mainVars>>

\* line 125-127
KeyEnter ==
    /\ sel = "dispatch"
    /\ key \in {<<LF>>, <<CR>>}
    /\ screen' = ClearPreviousLines(screen, Len(candidates) + 1)
    /\ result' = <<Chosen(candidates, selected_index)>>
    /\ status' = "Confirmed"
    /\ sel' = "done"
    /\ UNCHANGED <<candidates, selected_index, key, ch, raised, termios,
                   old_settings, tty0, downs, ups, regVars, audVars, obsVars, mainVars>>

\* line 128-129: sys.exit(0)
KeyCancel ==
    /\ sel = "dispatch"
    /\ key = <<ETX>>
    /\ status' = "Cancelled"
    /\ sel' = "done"
    /\ UNCHANGED <<candidates, selected_index, key, ch, raised, termios,
                   old_settings, tty0, screen, result, downs, ups, regVars,
                   audVars, obsVars, mainVars>>

\* Any other key taken for the down arrow.
KeyOtherAsDown ==
    /\ sel = "dispatch"
    /\ ~MoreBytes(key)
    /\ key \notin {KeyUpSeq, KeyDownSeq, <<LF>>, <<CR>>, <<ETX>>}
    /\ selected_index' = DownIndex(selected_index, Len(candidates))
    /\ sel' = "render"
    /\ UNCHANGED <<candidates, key, ch, raised, termios, old_settings, tty0,
                   screen, status, result, downs, ups, regVars, audVars, obsVars,
                   mainVars>>

\* Any other key: no branch of line 119-129 applies and the loop goes round.
KeyOther ==
    /\ sel = "dispatch"
    /\ ~MoreBytes(key)
    /\ key \notin {KeyUpSeq, KeyDownSeq, <<LF>>, <<CR>>, <<ETX>>}
    /\ sel' = "render"
    /\ UNCHANGED <<candidates, selected_index, key, ch, raised, termios,
                   old_settings, tty0, screen, status, result, downs, ups,
                   regVars, audVars, obsVars, mainVars>>

(***************************************************************************)
(* main and run_with_asciinema                                             *)
(***************************************************************************)
\* The default name of line 44, written as one symbol.
NameCurrent == <<"currentoperation">>

\* sys.argv as main tells it apart: no command or -h/--help ("help"), a
\* command alone ("cmd"), a command and an operation name ("name"), a command
\* and -s/--select ("select").
Argvs ==
    {[mode |-> m, name |-> <<>>] : m \in {"help", "cmd", "select"}}
        \cup {[mode |-> "name", name |-> x] : x \in Names}

\* line 150-151: the tool is started; whether the recorder is installed is
\* a fact of the environment it runs in.
Invoke ==
    /\ mpc = "off"
    /\ \E a \in Argvs, w \in BOOLEAN :
          /\ argv' = a
          /\ asciinema' = w
    /\ mpc' = "main"
    /\ runs' = runs + 1
    /\ pre' = [exists |-> exists, content |-> content]
    /\ UNCHANGED <<run_name, used, rec, exit_status, regVars, audVars, obsVars, selVars>>

\* line 132-134: print_usage() and sys.exit(1)
MainUsage ==
    /\ mpc = "main"
    /\ argv.mode = "help"
    /\ exit_status' = 1
    /\ mpc' = "exited"
    /\ UNCHANGED <<argv, asciinema, run_name, used, rec, runs, pre,
                   regVars, audVars, obsVars, selVars>>

\* line 136-139, 145-148: operation_name is sys.argv[2] or None, and
\* run_with_asciinema is entered
MainArgs ==
    /\ mpc = "main"
    /\ argv.mode \in {"cmd", "name"}
    /\ run_name' = IF argv.mode = "name" THEN <<argv.name>> ELSE <<>>
    /\ mpc' = "which"
    /\ UNCHANGED <<argv, asciinema, used, rec, exit_status, runs, pre,
                   regVars, audVars, obsVars, selVars>>

\* line 140-141: operations = read_operations()
MainSelectRead ==
    /\ mpc = "main"
    /\ argv.mode = "select"
    /\ CallRead(P1)
    /\ mpc' = "m_read"
    /\ UNCHANGED <<argv, asciinema, run_name, used, rec, exit_status, runs, pre>>

\* The process ended with a success status.
MainNoOperationsSuccess ==
    /\ mpc = "m_read"
    /\ pc[P1] = "idle"
    /\ operations[P1] = <<>>
    /\ exit_status' = 0
    /\ mpc' = "exited"
    /\ UNCHANGED <<argv, asciinema, run_name, used, rec, runs, pre,
                   regVars, audVars, obsVars, selVars>>

\* line 142-143: sys.exit("No previous operations found."), exit status 1
MainNoOperations ==
    /\ mpc = "m_read"
    /\ pc[P1] = "idle"
    /\ operations[P1] = <<>>
    /\ exit_status' = 1
    /\ mpc' = "exited"
    /\ UNCHANGED <<argv, asciinema, run_name, used, rec, runs, pre,
                   regVars, audVars, obsVars, selVars>>

\* line 144: select_operation(operations) is entered
MainSelect ==
    /\ mpc = "m_read"
    /\ pc[P1] = "idle"
    /\ operations[P1] # <<>>
    /\ candidates' = operations[P1]
    /\ status' = "Navigating"
    /\ sel' = "start"
    /\ mpc' = "m_select"
    /\ UNCHANGED <<selected_index, key, ch, raised, termios, old_settings, tty0,
                   screen, result, downs, ups>>
    /\ UNCHANGED <<argv, asciinema, run_name, used, rec, exit_status, runs, pre,
                   regVars, audVars, obsVars>>

\* line 127, 144, 148: operation_name = the name select_operation returned
MainSelected ==
    /\ mpc = "m_select"
    /\ sel = "done"
    /\ status = "Confirmed"
    /\ run_name' = result
    /\ mpc' = "which"
    /\ UNCHANGED <<argv, asciinema, used, rec, exit_status, runs, pre,
                   regVars, audVars, obsVars, selVars>>

\* Ctrl-C taken for Enter: main goes on with the candidate at the cursor.
MainCancelledGoesOn ==
    /\ mpc = "m_select"
    /\ sel = "done"
    /\ status = "Cancelled"
    /\ run_name' = <<Chosen(candidates, selected_index)>>
    /\ mpc' = "which"
    /\ UNCHANGED <<argv, asciinema, used, rec, exit_status, runs, pre,
                   regVars, audVars, obsVars, selVars>>

\* line 129: sys.exit(0) in select_operation ends the process
MainCancelled ==
    /\ mpc = "m_select"
    /\ sel = "done"
    /\ status = "Cancelled"
    /\ exit_status' = 0
    /\ mpc' = "exited"
    /\ UNCHANGED <<argv, asciinema, run_name, used, rec, runs, pre,
                   regVars, audVars, obsVars, selVars>>

\* line 93: what getch raised is caught nowhere; the process ends with a
\* traceback and exit status 1
MainRaised ==
    /\ mpc = "m_select"
    /\ sel = "raised"
    /\ exit_status' = 1
    /\ mpc' = "exited"
    /\ UNCHANGED <<argv, asciinema, run_name, used, rec, runs, pre,
                   regVars, audVars, obsVars, selVars>>

\* line 40-41: sys.exit("Error: asciinema is not installed."), exit status 1
MainWhichAbsent ==
    /\ mpc = "which"
    /\ ~asciinema
    /\ exit_status' = 1
    /\ mpc' = "exited"
    /\ UNCHANGED <<argv, asciinema, run_name, used, rec, runs, pre,
                   regVars, audVars, obsVars, selVars>>

\* line 40, 43: the recorder is found; a name that is None is to be defaulted
MainWhich ==
    /\ mpc = "which"
    /\ asciinema
    /\ mpc' = IF run_name = <<>> THEN "d_test" ELSE "save"
    /\ UNCHANGED <<argv, asciinema, run_name, used, rec, exit_status, runs, pre,
                   regVars, audVars, obsVars, selVars>>

\* line 44: the condition of the conditional expression, read_operations()
MainDefaultTestRead ==
    /\ mpc = "d_test"
    /\ CallRead(P1)
    /\ mpc' = "d_test_wait"
    /\ UNCHANGED <<argv, asciinema, run_name, used, rec, exit_status, runs, pre>>

\* line 44: an empty list gives "currentoperation", another one has
\* read_operations()[-1] evaluated
MainDefaultTest ==
    /\ mpc = "d_test_wait"
    /\ pc[P1] = "idle"
    /\ IF operations[P1] = <<>>
       THEN run_name' = <<NameCurrent>> /\ mpc' = "save"
       ELSE run_name' = run_name /\ mpc' = "d_last"
    /\ UNCHANGED <<argv, asciinema, used, rec, exit_status, runs, pre,
                   regVars, audVars, obsVars, selVars>>

\* line 44: read_operations()[-1], a second read of the file
MainDefaultLastRead ==
    /\ mpc = "d_last"
    /\ CallRead(P1)
    /\ mpc' = "d_last_wait"
    /\ UNCHANGED <<argv, asciinema, run_name, used, rec, exit_status, runs, pre>>

\* line 44: the last element of the list just read (an IndexError, uncaught,
\* when that list is empty)
MainDefaultLast ==
    /\ mpc = "d_last_wait"
    /\ pc[P1] = "idle"
    /\ IF operations[P1] = <<>>
       THEN run_name' = run_name /\ exit_status' = 1 /\ mpc' = "exited"
       ELSE /\ run_name' = <<operations[P1][Len(operations[P1])]>>
            /\ exit_status' = exit_status
            /\ mpc' = "save"
    /\ UNCHANGED <<argv, asciinema, used, rec, runs, pre,
                   regVars, audVars, obsVars, selVars>>

\* The recorder started without save_operation being called.
MainSaveSkipped ==
    /\ mpc = "save"
    /\ mpc' = "save_wait"
    /\ UNCHANGED <<argv, asciinema, run_name, used, rec, exit_status, runs, pre,
                   regVars, audVars, obsVars, selVars>>

\* line 46-53: the target directory and the file name are made, then
\* save_operation(operation_name) is called
MainSave ==
    /\ mpc = "save"
    /\ CallAppend(P1, run_name[1])
    /\ mpc' = "save_wait"
    /\ UNCHANGED <<argv, asciinema, run_name, used, rec, exit_status, runs, pre>>

\* line 55-57: save_operation has returned; subprocess.run starts the
\* recorder and waits for it
MainRecord ==
    /\ mpc = "save_wait"
    /\ pc[P1] = "idle"
    /\ rec' = "running"
    /\ used' = Append(used, run_name[1])
    /\ mpc' = "rec"
    /\ UNCHANGED <<argv, asciinema, run_name, exit_status, runs, pre,
                   regVars, audVars, obsVars, selVars>>

\* line 57-63: the recorder ends with return code 0 (main returns, exit
\* status 0), with another one (sys.exit with a message at line 59, exit
\* status 1), or subprocess.run raises (sys.exit with a message at line 63)
RecorderExit ==
    /\ mpc = "rec"
    /\ \E outcome \in {"ok", "failed", "error"} :
          /\ rec' = outcome
          /\ exit_status' = IF outcome = "ok" THEN 0 ELSE 1
    /\ mpc' = "exited"
    /\ UNCHANGED <<argv, asciinema, run_name, used, runs, pre,
                   regVars, audVars, obsVars, selVars>>

\* The process has ended and the tool is started again: a new process with
\* nothing left of the old one but the registry file and the terminal.
Again ==
    /\ mpc = "exited"
    /\ runs < MaxRuns
    /\ mpc' = "off"
    /\ run_name' = <<>>
    /\ rec' = "no"
    /\ exit_status' = 0
    /\ call' = [call EXCEPT ![P1] = "none"]
    /\ operation_name' = [operation_name EXCEPT ![P1] = <<>>]
    /\ operations' = [operations EXCEPT ![P1] = <<>>]
    /\ candidates' = <<>>
    /\ selected_index' = 0
    /\ sel' = "off"
    /\ key' = <<>>
    /\ ch' = ""
    /\ raised' = FALSE
    /\ old_settings' = termios
    /\ tty0' = termios
    /\ screen' = <<PriorRow>>
    /\ status' = "None"
    /\ result' = <<>>
    /\ downs' = 0
    /\ ups' = 0
    /\ UNCHANGED <<exists, content, lock, pc, wbuf, termios, argv, asciinema,
                   used, runs, pre, audVars, obsVars>>

(***************************************************************************)
(* Specifications                                                          *)
(***************************************************************************)
\* Concurrent invocations sharing the registry.
Init == RegInit /\ audit = FALSE /\ SelOff /\ MainOff

Next ==
    \/ \E p \in Procs, x \in Names :
          Len(content) < MaxFileLen /\ CallAppend(p, x) /\ UNCHANGED mainVars
    \/ \E p \in Procs : CallRead(p) /\ UNCHANGED mainVars
    \/ \E p \in Procs : ReadExists(p)
    \/ \E p \in Procs : ReadLock(p)
    \/ \E p \in Procs : ReadRead(p)
    \/ \E p \in Procs : ReadUnlock(p)
    \/ \E p \in Procs : SaveCheck(p)
    \/ \E p \in Procs : SaveOpen(p)
    \/ \E p \in Procs : SaveLock(p)
    \/ \E p \in Procs : SaveWrite(p)
    \/ \E p \in Procs : SaveUnlock(p)
    \/ \E p \in Procs : SaveClose(p)

Spec == Init /\ [][Next]_vars

\* One invocation after another: a single process, every call recorded.
SeqInit == RegInit /\ audit = TRUE /\ SelOff /\ MainOff

SeqNext ==
    \/ \E x \in Names : Len(hist) < MaxCalls /\ CallAppend(P1, x) /\ UNCHANGED mainVars
    \/ CallRead(P1) /\ UNCHANGED mainVars
    \/ ReadExists(P1)
    \/ ReadLock(P1)
    \/ ReadRead(P1)
    \/ ReadUnlock(P1)
    \/ SaveCheck(P1)
    \/ SaveOpen(P1)
    \/ SaveLock(P1)
    \/ SaveWrite(P1)
    \/ SaveUnlock(P1)
    \/ SaveClose(P1)

SeqSpec == SeqInit /\ [][SeqNext]_vars

\* Concurrent invocations under a fair scheduler.  One invocation performs a
\* bounded number of registry operations (main, line 139-148, and
\* run_with_asciinema, line 43-53): here at most one ReadAll (line 141)
\* followed by one Append (line 53).
FairNext ==
    \/ \E p \in Procs : call[p] = "none" /\ CallRead(p) /\ UNCHANGED mainVars
    \/ \E p \in Procs, x \in Names :
          call[p] # "append" /\ CallAppend(p, x) /\ UNCHANGED mainVars
    \/ \E p \in Procs : ReadExists(p)
    \/ \E p \in Procs : ReadLock(p)
    \/ \E p \in Procs : ReadRead(p)
    \/ \E p \in Procs : ReadUnlock(p)
    \/ \E p \in Procs : SaveCheck(p)
    \/ \E p \in Procs : SaveOpen(p)
    \/ \E p \in Procs : SaveLock(p)
    \/ \E p \in Procs : SaveWrite(p)
    \/ \E p \in Procs : SaveUnlock(p)
    \/ \E p \in Procs : SaveClose(p)

\* The steps of process p inside read_operations and save_operation.
RegStep(p) ==
    \/ ReadExists(p)
    \/ ReadLock(p)
    \/ ReadRead(p)
    \/ ReadUnlock(p)
    \/ SaveCheck(p)
    \/ SaveOpen(p)
    \/ SaveLock(p)
    \/ SaveWrite(p)
    \/ SaveUnlock(p)
    \/ SaveClose(p)

\* The operating system runs every process that can run, and flock (line 23,
\* 35) returns once no conflicting lock is held.
Fairness == \A p \in Procs : WF_vars(RegStep(p))

FairSpec == Init /\ [][FairNext]_vars /\ Fairness

\* One invocation of the tool, from main to the end of the process.
MainInit ==
    /\ RegInit
    /\ audit = FALSE
    /\ candidates = <<>>
    /\ selected_index = 0
    /\ sel = "off"
    /\ key = <<>>
    /\ ch = ""
    /\ raised = FALSE
    /\ tty0 \in TtyModes
    /\ termios = tty0
    /\ old_settings = tty0
    /\ screen = <<PriorRow>>
    /\ status = "None"
    /\ result = <<>>
    /\ downs = 0
    /\ ups = 0
    /\ MainOff

MainNext ==
    \/ Invoke
    \/ MainUsage
    \/ MainArgs
    \/ MainSelectRead
    \/ MainNoOperations
    \/ MainSelect
    \/ MainSelected
    \/ MainCancelled
    \/ MainRaised
    \/ MainWhichAbsent
    \/ MainWhich
    \/ MainDefaultTestRead
    \/ MainDefaultTest
    \/ MainDefaultLastRead
    \/ MainDefaultLast
    \/ MainSave
    \/ MainRecord
    \/ RecorderExit
    \/ ReadExists(P1)
    \/ ReadLock(P1)
    \/ ReadRead(P1)
    \/ ReadUnlock(P1)
    \/ SaveCheck(P1)
    \/ SaveOpen(P1)
    \/ SaveLock(P1)
    \/ SaveWrite(P1)
    \/ SaveUnlock(P1)
    \/ SaveClose(P1)
    \/ SelectStart
    \/ Render
    \/ GetchSave
    \/ GetchRaw
    \/ GetchRead
    \/ GetchRaise
    \/ GetchRestore
    \/ KeyEscape
    \/ KeyUp
    \/ KeyDown
    \/ KeyEnter
    \/ KeyCancel
    \/ KeyOther

MainSpec == MainInit /\ [][MainNext]_vars

\* One invocation after another on the same registry.
HistNext ==
    \/ MainNext
    \/ Again

HistSpec == MainInit /\ [][HistNext]_vars

\* The selector as main enters it (line 141-144): P1 has read the registry,
\* found it not empty and passes the list on.
SelInit ==
    /\ content \in SelTexts \ {<<>>}
    /\ exists = TRUE
    /\ lock = [p \in Procs |-> "UN"]
    /\ pc = [p \in Procs |-> "idle"]
    /\ call = [p \in Procs |-> IF p = P1 THEN "read" ELSE "none"]
    /\ operation_name = [p \in Procs |-> <<>>]
    /\ operations = [p \in Procs |-> IF p = P1 THEN ReadLines(content) ELSE <<>>]
    /\ wbuf = [p \in Procs |-> <<>>]
    /\ audit = FALSE
    /\ hist = <<>>
    /\ snaps = <<>>
    /\ content0 = content
    /\ last_read = operations[P1]
    /\ candidates = operations[P1]
    /\ selected_index = 0
    /\ sel = "start"
    /\ key = <<>>
    /\ ch = ""
    /\ raised = FALSE
    /\ tty0 \in TtyModes
    /\ termios = tty0
    /\ old_settings = tty0
    /\ screen \in {[i \in 1..n |-> PriorRow] : n \in 1..MaxPrior}
    /\ status = "Navigating"
    /\ result = <<>>
    /\ downs = 0
    /\ ups = 0
    /\ mpc = "m_select"
    /\ argv = [mode |-> "select", name |-> <<>>]
    /\ asciinema = TRUE
    /\ run_name = <<>>
    /\ used = <<>>
    /\ rec = "no"
    /\ exit_status = 0
    /\ runs = 1
    /\ pre = [exists |-> exists, content |-> content]

SelNext ==
    \/ SelectStart
    \/ Render
    \/ GetchSave
    \/ GetchRaw
    \/ GetchRead
    \/ GetchRaise
    \/ GetchRestore
    \/ KeyEscape
    \/ KeyUp
    \/ KeyDown
    \/ KeyEnter
    \/ KeyCancel
    \/ KeyOther

SelSpec == SelInit /\ [][SelNext]_vars

(***************************************************************************)
(* Properties of the registry, one invocation after another (SeqSpec)      *)
(***************************************************************************)
\* A name no character of which the reader takes for a line boundary.
LineFree(x) == \A i \in 1..Len(x) : x[i] \notin LineBreaks

\* The distinct elements of s in order of first occurrence.
RECURSIVE FirstOccurrences(_)
FirstOccurrences(s) ==
    IF s = <<>> THEN <<>>
    ELSE LET front == FirstOccurrences(SubSeq(s, 1, Len(s) - 1))
             last == s[Len(s)]
         IN IF last \in Range(front) THEN front ELSE Append(front, last)

\* The entries of the registry: what ReadAll returns for the file as it is.
Entries == IF exists THEN ReadLines(content) ELSE <<>>

\* P1 has just completed Append(x) for the second time in a row.
AppendedTwice ==
    /\ pc[P1] = "idle"
    /\ call[P1] = "append"
    /\ Len(hist) >= 2
    /\ hist[Len(hist)] = hist[Len(hist) - 1]

\* The entries before the first of the two calls, and the place x is first
\* inserted at: where it already was, or right after those entries.
EntriesBeforeFirst == ReadLines(snaps[Len(snaps) - 1])
FirstInsertion(x) == IF x \in Range(EntriesBeforeFirst)
                     THEN IndexOf(x, EntriesBeforeFirst)
                     ELSE Len(EntriesBeforeFirst) + 1

IdempotentFor(x) ==
    /\ content = snaps[Len(snaps)]
    /\ Count(x, Entries) = 1
    /\ IndexOf(x, Entries) = FirstInsertion(x)

\* C1 as stated: for every name x and every registry content, after
\* Append(x) was called twice in a row the registry holds exactly one entry
\* equal to x, at the position of its first insertion, and the second call
\* left the file as it was.
C1_IdempotentAnyName ==
    AppendedTwice => IdempotentFor(hist[Len(hist)])

\* C1, amended: the same for every name x that holds no line-boundary
\* character and every registry content that holds x at most once.
C1_IdempotentAppend ==
    (/\ AppendedTwice
     /\ LineFree(hist[Len(hist)])
     /\ Count(hist[Len(hist)], EntriesBeforeFirst) <= 1)
    => IdempotentFor(hist[Len(hist)])

\* Append(x) ran twice on a registry without x: the first call inserted x.
C1_Witness ==
    /\ AppendedTwice
    /\ LineFree(hist[Len(hist)])
    /\ hist[Len(hist)] \notin Range(EntriesBeforeFirst)
    /\ EntriesBeforeFirst # <<>>
    /\ content # snaps[Len(snaps) - 1]

\* The registry P1 started from, and ReadAll having just returned to P1.
StartedEmpty == content0 = <<>>
ReadAllReturned == pc[P1] = "idle" /\ call[P1] = "read"

\* C2 as stated: starting from an empty or missing registry, ReadAll after
\* any sequence of Append calls returns the distinct names of the sequence
\* in order of first occurrence.
C2_OrderAnyName ==
    (StartedEmpty /\ ReadAllReturned) => operations[P1] = FirstOccurrences(hist)

\* C2, amended: the same for sequences of names that hold no line-boundary
\* character.
C2_OrderPreserved ==
    (/\ StartedEmpty
     /\ ReadAllReturned
     /\ \A i \in 1..Len(hist) : LineFree(hist[i]))
    => operations[P1] = FirstOccurrences(hist)

\* ReadAll after Append a, b, a on a registry that was empty.
C2_Witness ==
    /\ StartedEmpty
    /\ ReadAllReturned
    /\ hist = <<NameA, NameB, NameA>>
    /\ operations[P1] = <<NameA, NameB>>

(***************************************************************************)
(* Properties of the registry under concurrent invocations (Spec)          *)
(***************************************************************************)
\* C3: the registry is append-only under every interleaving: each step
\* leaves the previous file content as a prefix of the new one, and the
\* result of each ReadAll has the result of the ReadAll before it as a
\* prefix.
C3_AppendOnly ==
    [][/\ IsPrefix(content, content')
       /\ IsPrefix(last_read, last_read')]_vars

\* One invocation holds the result of an earlier ReadAll, and a later
\* ReadAll of another has produced a longer one.
C3_Witness ==
    \E p \in Procs :
        /\ call[p] = "read"
        /\ pc[p] = "idle"
        /\ operations[p] # <<>>
        /\ Len(operations[p]) < Len(last_read)
        /\ IsPrefix(operations[p], last_read)

\* How many records x were appended, when the file holds what it held at
\* first followed by records x only; -1 otherwise.
RECURSIVE CopiesFrom(_, _)
CopiesFrom(x, text) ==
    IF text = <<>> THEN 0
    ELSE IF IsPrefix(Record(x), text)
         THEN LET rest == CopiesFrom(x, SubSeq(text, Len(x) + 2, Len(text)))
              IN IF rest < 0 THEN -1 ELSE rest + 1
         ELSE -1
Copies(x) == IF IsPrefix(content0, content)
             THEN CopiesFrom(x, SubSeq(content, Len(content0) + 1, Len(content)))
             ELSE -1

\* Every invocation has completed Append(x).
AllAppended(x) ==
    \A p \in Procs : pc[p] = "idle" /\ call[p] = "append" /\ operation_name[p] = x

\* C4: when two invocations run Append(x) on a registry that does not hold
\* the line x, and nothing else is appended, the registry never holds more
\* than two lines x and holds at least one once both calls have completed.
\* (C4_Witness is the interleaving that leaves two.)
C4_RaceTolerance ==
    \A x \in Names :
        (/\ LineFree(x)
         /\ x \notin Range(ReadLines(content0))
         /\ Copies(x) >= 0)
        => /\ Copies(x) <= 2
           /\ Count(x, Entries) = Copies(x)
           /\ AllAppended(x) => Copies(x) >= 1

\* Both membership tests ran before either append: two identical lines.
C4_Witness ==
    \E x \in Names :
        /\ LineFree(x)
        /\ x \notin Range(ReadLines(content0))
        /\ AllAppended(x)
        /\ Copies(x) = 2
        /\ Count(x, Entries) = 2

\* C5: the file content changes only while the process that appends holds
\* the exclusive lock, hence never while another process holds the shared
\* lock.
C5_WriteUnderExclusiveLock ==
    [][content' # content =>
          /\ \E p \in Procs : pc[p] # pc'[p] /\ lock[p] = "EX"
          /\ \A q \in Procs : lock[q] # "SH"]_vars

(***************************************************************************)
(* Properties of the selector (SelSpec)                                    *)
(***************************************************************************)
\* C6: the cursor starts at 0, always lies in 0..N-1 for the N candidates,
\* and equals (number of Downs - number of Ups) mod N after any sequence of
\* keys; a Down sets it to (cursor + 1) mod N, an Up to (cursor - 1 + N) mod N.
C6_CursorWraps ==
    LET N == Len(candidates) IN
    /\ N >= 1
    /\ selected_index \in 0..(N - 1)
    /\ selected_index = (downs - ups) % N
    /\ (downs = 0 /\ ups = 0) => selected_index = 0
    /\ (sel = "render" /\ key = KeyDownSeq /\ downs - ups = N) => selected_index = 0
    /\ (sel = "render" /\ key = KeyUpSeq /\ ups - downs = 1) => selected_index = N - 1

\* Up from index 0 of three candidates has wrapped to index 2.
C6_Witness ==
    /\ Len(candidates) = 3
    /\ sel = "render"
    /\ key = KeyUpSeq
    /\ ups = 1
    /\ downs = 0
    /\ selected_index = 2

\* C7: whenever Enter ("\n" or "\r" read as a key of its own) is decoded
\* while navigating, the selector ends Confirmed and returns the candidate
\* at the cursor, unchanged; what it returns is one of its candidates.
C7_ConfirmReturnsCandidate ==
    [][/\ (sel = "dispatch" /\ status = "Navigating" /\ key \in {<<LF>>, <<CR>>})
          => /\ status' = "Confirmed"
             /\ sel' = "done"
             /\ result' = <<candidates[selected_index + 1]>>
             /\ selected_index' = selected_index
       /\ status' = "Confirmed"
          => /\ Len(result') = 1
             /\ result'[1] \in Range(candidates)
             /\ result'[1] = candidates'[selected_index' + 1]]_vars

\* Two different candidates, the cursor moved to index 1, Enter: the second.
C7_Witness ==
    /\ status = "Confirmed"
    /\ Len(candidates) = 2
    /\ candidates[1] # candidates[2]
    /\ selected_index = 1
    /\ result = <<candidates[2]>>

\* An escape sequence is being read: "\x1b" arrived and fewer than three
\* characters of the key have.
InEscape == key # <<>> /\ key[1] = ESC /\ Len(key) < 3

\* A key event is decoded: a branch of line 119-129 other than the reading
\* of the rest of an escape sequence is taken.
Decoded == sel = "dispatch" /\ sel' \in {"render", "done"}

\* C8: once "\x1b" is read, two more characters are read before anything
\* else happens: until then nothing is drawn and neither the cursor nor the
\* state of the selector changes; the two characters are no key events of
\* their own; every decoded event consumed exactly one character (a plain
\* key) or exactly three (an escape-prefixed key).
C8_EscapeAtomic ==
    [][/\ InEscape => /\ screen' = screen
                      /\ selected_index' = selected_index
                      /\ status' = status
                      /\ result' = result
                      /\ sel' \notin {"render", "done"}
       /\ Decoded => \/ Len(key) = 1 /\ key[1] # ESC
                     \/ Len(key) = 3 /\ key[1] = ESC
       /\ (status' # status \/ result' # result) => Len(key) = 1
       /\ selected_index' # selected_index => key \in {KeyUpSeq, KeyDownSeq}]_vars

\* "\x1b" followed by "\r" and Ctrl-C was decoded as one ignored key: the
\* selector still navigates.
C8_Witness ==
    /\ key = <<ESC, CR, ETX>>
    /\ sel = "render"
    /\ status = "Navigating"
    /\ result = <<>>

\* C9: every character is read with the terminal in raw mode, and whenever
\* the selector is left (Enter, Ctrl-C, or sys.stdin.read raising) the
\* terminal has the settings it had before the selector started.
C9_TerminalMode ==
    /\ sel = "g_read" => termios = RawMode
    /\ sel \in {"done", "raised"} => termios = tty0 /\ termios # RawMode
    /\ tty0 \in TtyModes

\* The read raised in the middle of an escape sequence; the settings are back.
C9_Witness ==
    /\ sel = "raised"
    /\ key = <<ESC>>
    /\ tty0 = "noecho"
    /\ termios = "noecho"

\* C10: when the selector has ended, Confirmed or Cancelled, no row of the
\* menu (heading or candidate) is left on the terminal.
C10_NoMenuLeft ==
    sel = "done" =>
        \A i \in 1..Len(screen) : screen[i].kind \notin {"heading", "item"}

\* The rows that line 109 is about to erase: the Len(candidates) rows just
\* above the cursor, or all rows when there are fewer.
AboutToErase ==
    SubSeq(screen,
           IF Len(screen) > Len(candidates) THEN Len(screen) - Len(candidates) + 1 ELSE 1,
           Len(screen))

\* C11: every erase before a redraw removes exactly the Len(candidates)
\* candidate rows the selector drew in the previous render and no other row
\* (not the heading, not a row that was there before the selector), also at
\* the first render; after each redraw exactly one row carries the marker,
\* the one at index selected_index.
C11_RenderingContract ==
    /\ sel = "render" =>
          /\ Len(AboutToErase) = Len(candidates)
          /\ \A i \in 1..Len(AboutToErase) : AboutToErase[i].kind = "item"
    /\ (sel = "g_save" /\ key = <<>>) =>
          /\ Len(screen) >= Len(candidates)
          /\ \A i \in 1..Len(candidates) :
                LET row == screen[Len(screen) - Len(candidates) + i]
                IN  /\ row.kind = "item"
                    /\ row.mark = (i - 1 = selected_index)
                    /\ row.text = candidates[i]
          /\ Cardinality({i \in 1..Len(screen) : screen[i].mark}) = 1

\* A key the selector has no branch for: one character other than "\n", "\r",
\* Ctrl-C and "\x1b", or three characters starting with "\x1b" that are
\* neither the up nor the down arrow.
Unrecognized(k) ==
    \/ Len(k) = 1 /\ k[1] \notin {LF, CR, ETX, ESC}
    \/ Len(k) = 3 /\ k[1] = ESC /\ k \notin {KeyUpSeq, KeyDownSeq}

\* C16: while navigating, decoding an unrecognized key leaves the cursor
\* where it is and the selector navigating, with no result and no error; the
\* redraw that follows leaves the terminal as it was.
C16_UnrecognizedIgnored ==
    [][/\ (sel = "dispatch" /\ status = "Navigating" /\ Unrecognized(key))
          => /\ selected_index' = selected_index
             /\ status' = "Navigating"
             /\ result' = <<>>
             /\ raised' = FALSE
             /\ sel' = "render"
             /\ termios' = tty0
       /\ (sel = "render" /\ Unrecognized(key))
          => /\ screen' = screen
             /\ selected_index' = selected_index
             /\ status' = "Navigating"
             /\ result' = <<>>]_vars

\* The cursor was moved to index 1, then "\x1b", "[", "x" was decoded: the
\* cursor is still at index 1 and the selector navigates, about to redraw.
C16_Witness ==
    /\ key = <<ESC, "[", "x">>
    /\ sel = "render"
    /\ downs = 1
    /\ ups = 0
    /\ selected_index = 1
    /\ status = "Navigating"
    /\ result = <<>>

(***************************************************************************)
(* Properties of read_operations on a missing file (Spec)                  *)
(***************************************************************************)
\* C17: a ReadAll that finds no registry file returns the empty sequence at
\* once (it takes no lock and nothing is raised) and neither creates the
\* file nor changes its content.
C17_MissingFileSafety ==
    [][\A p \in Procs :
          (pc[p] = "r_exists" /\ ~exists /\ pc'[p] # pc[p])
          => /\ operations'[p] = <<>>
             /\ pc'[p] = ReadReturn(p)
             /\ exists' = FALSE
             /\ content' = content
             /\ lock' = lock]_vars

\* ReadAll has returned the empty sequence to P1 and there is still no file.
C17_Witness ==
    /\ call[P1] = "read"
    /\ pc[P1] = "idle"
    /\ operations[P1] = <<>>
    /\ ~exists
    /\ content = <<>>

(***************************************************************************)
(* Properties of the locking protocol under fair scheduling (FairSpec)     *)
(***************************************************************************)
\* C19: no process waits for the exclusive lock while it holds the shared
\* one, no process holds a lock once its operation has completed, and every
\* started ReadAll and Append eventually completes.
C19_NoDeadlock ==
    /\ [](\A p \in Procs : /\ pc[p] = "s_lock" => lock[p] = "UN"
                           /\ pc[p] = "idle" => lock[p] = "UN")
    /\ \A p \in Procs : (pc[p] # "idle") ~> (pc[p] = "idle")

\* P1 waits for the exclusive lock while the other process holds the shared
\* one.
C19_Witness ==
    /\ pc[P1] = "s_lock"
    /\ lock[P1] = "UN"
    /\ \E q \in Procs \ {P1} : lock[q] = "SH"

(***************************************************************************)
(* Properties of one invocation (MainSpec)                                 *)
(***************************************************************************)
\* C12: from every cursor position, Ctrl-C read as a key of its own while
\* navigating ends the selector Cancelled with no result, and the process
\* then ends with exit status 0; the registry file is as it was when the
\* invocation started (no Append is made) and the recorder is never started.
C12_CancelClean ==
    [][/\ (sel = "dispatch" /\ status = "Navigating" /\ key = <<ETX>>)
          => /\ status' = "Cancelled"
             /\ sel' = "done"
             /\ result' = <<>>
             /\ selected_index' = selected_index
       /\ (status = "Cancelled" /\ mpc # "exited")
          => /\ mpc' = "exited"
             /\ exit_status' = 0
       /\ status' = "Cancelled"
          => /\ result' = <<>>
             /\ rec' = "no"
             /\ used' = <<>>
             /\ exists' = pre.exists
             /\ content' = pre.content
             /\ pc'[P1] = "idle"
             /\ call'[P1] = "read"
             /\ mpc' \in {"m_select", "exited"}]_vars

\* With the recorder installed, the cursor was moved to the second candidate
\* and Ctrl-C pressed: the process has ended with status 0, nothing recorded.
C12_Witness ==
    /\ mpc = "exited"
    /\ status = "Cancelled"
    /\ asciinema
    /\ selected_index = 1
    /\ exit_status = 0
    /\ rec = "no"
    /\ content = pre.content

\* C13: when the recorder is not installed, the invocation reads nothing
\* from the registry, appends nothing to it and does not enter the selector
\* before it fails, whatever its arguments (-s/--select included), and it
\* ends with a failure status.
C13_RecorderCheckedFirst ==
    (mpc # "off" /\ ~asciinema) =>
        /\ call[P1] = "none"
        /\ pc[P1] = "idle"
        /\ sel = "off"
        /\ rec = "no"
        /\ mpc = "exited" => exit_status = 1

\* C15: when -s/--select is given and read_operations returns the empty
\* list, the process ends at once with a failure status: the selector is
\* not entered, the terminal keeps its settings and no character is read,
\* the registry file is neither created nor changed, and the recorder is not
\* started.
C15_EmptyCandidateList ==
    [][/\ (argv.mode = "select" /\ mpc' \in {"main", "m_read"})
          => /\ sel' = "off"
             /\ termios' = tty0
             /\ key' = <<>>
             /\ rec' = "no"
             /\ exists' = pre'.exists
             /\ content' = pre'.content
       /\ (mpc = "m_read" /\ pc[P1] = "idle" /\ operations[P1] = <<>>)
          => /\ mpc' = "exited"
             /\ exit_status' = 1
             /\ UNCHANGED <<regVars, selVars, rec, used>>
       /\ mpc = "exited" => UNCHANGED vars]_vars

\* -s was given with the recorder installed and the registry file present
\* but empty: the process has ended with status 1, the selector never
\* entered.
C15_Witness ==
    /\ mpc = "exited"
    /\ argv.mode = "select"
    /\ asciinema
    /\ pre.exists
    /\ pre.content = <<>>
    /\ content = <<>>
    /\ candidates = <<>>
    /\ sel = "off"
    /\ termios = tty0
    /\ rec = "no"
    /\ exit_status = 1

\* save_operation(operation_name) of this invocation has returned: its file
\* is closed, everything it wrote is in the file and no lock is held.
AppendCompleted ==
    /\ call[P1] = "append"
    /\ operation_name[P1] = run_name[1]
    /\ pc[P1] = "idle"
    /\ lock[P1] = "UN"
    /\ wbuf[P1] = <<>>
    /\ exists

\* C18 as stated, for every operation name: once the recorder has been
\* started, Append(name) has completed and the name is an entry of the
\* registry, and it stays one however the recorder ends.
C18_RegistryBeforeRecorderAnyName ==
    rec # "no" =>
        /\ AppendCompleted
        /\ run_name[1] \in Range(Entries)

\* C18, amended: the same for every operation name that holds no line
\* boundary; for any name, Append(name) has completed before the recorder
\* is started and the record written for it stays in the file.
C18_RegistryBeforeRecorder ==
    rec # "no" =>
        /\ AppendCompleted
        /\ LineFree(run_name[1]) => run_name[1] \in Range(Entries)
        /\ IsPrefix(pre.content, content)
        /\ run_name[1] \notin Range(ReadLines(pre.content))
              => content = pre.content \o Record(run_name[1])

\* A name the registry did not hold was given, the recorder started and
\* ended with a non-zero return code: the process has failed and the name is
\* an entry of the registry.
C18_Witness ==
    /\ mpc = "exited"
    /\ rec = "failed"
    /\ exit_status = 1
    /\ run_name = <<NameB>>
    /\ NameB \notin Range(ReadLines(pre.content))
    /\ NameB \in Range(Entries)

\* C20: in an invocation with -s/--select (and no other invocation writing)
\* the name the selector returns is one of the names read_operations
\* produced, save_operation finds it in the registry and writes nothing,
\* and the registry file is the same after the invocation as before it.
C20_SelectDoesNotGrow ==
    argv.mode = "select" =>
        /\ exists = pre.exists
        /\ content = pre.content
        /\ wbuf[P1] = <<>>
        /\ pc[P1] \notin {"s_open", "s_lock", "s_write", "s_unlock", "s_close"}
        /\ candidates \in {<<>>, ReadLines(pre.content)}
        /\ run_name # <<>> =>
              /\ run_name[1] \in Range(candidates)
              /\ run_name[1] \in Range(Entries)
        /\ rec # "no" => call[P1] = "append" /\ operation_name[P1] = run_name[1]

\* The second of two candidates was selected and recorded under: the
\* process has ended, save_operation was called, the file is as it was.
C20_Witness ==
    /\ mpc = "exited"
    /\ argv.mode = "select"
    /\ rec = "ok"
    /\ selected_index = 1
    /\ run_name = <<candidates[2]>>
    /\ call[P1] = "append"
    /\ content = pre.content

(***************************************************************************)
(* Properties of invocations following one another (HistSpec)              *)
(***************************************************************************)
\* C14: an invocation with a command and neither a name nor -s files its
\* recording under the name the latest earlier recording was started under,
\* also when that name was already in the registry, and under
\* "currentoperation" when the registry started empty and nothing was
\* recorded yet.  (Names are taken to hold no line boundary.)
C14_DefaultIsLastUsed ==
    (/\ mpc = "save"
     /\ argv.mode = "cmd"
     /\ \A i \in 1..Len(used) : LineFree(used[i])
     /\ used # <<>> \/ content0 = <<>>)
    => run_name = <<IF used = <<>> THEN NameCurrent ELSE used[Len(used)]>>

=============================================================================
